---- MODULE Spec2Model ----
(***************************************************************************)
(* LingoLink (src/index.tsx): the real-time duplex audio pipeline and the  *)
(* session life cycle of the voice-chat client.  index.tsx holds three     *)
(* iterations of the App component (lines 75-380, 459-839, 919-1363); the   *)
(* variable `variant` says which one runs.                                 *)
(***************************************************************************)
EXTENDS Integers, Sequences, FiniteSets, TLC

\* ------------------------------------------------------------------ bounds
\* Each specification explores the inputs it is about up to these bounds and
\* gives the other inputs the small budget written in its Init.
MaxStarts == 2      \* start requests that pass the guard of startSession
MaxFrames == 3      \* frames delivered by the capture callback
MaxChunks == 2      \* inbound events that carry audio
MaxDur    == 2      \* longest chunk, in clock units
MaxTime   == 3      \* last reading of the playback clock
MaxText   == 3      \* characters of transcription deltas delivered
MaxTurns  == 2      \* turnComplete events delivered
MaxNow    == 1      \* last reading of Date.now()
MaxHints  == 2      \* clicks on a suggestion
MaxClicks == 1      \* clicks on a translate button
MaxBurst  == 3      \* audio events of one burst of short chunks

\* --------------------------------------------------------------- constants
MAX_RECONNECT_ATTEMPTS == 3

Variants == 1..3

VARIABLES
    budget,               \* how many inputs of each kind the run may still draw on
    variant,              \* the App component in use
    isSessionActive,      \* useState
    isConnecting,         \* useState
    statusText,           \* useState
    errorText,            \* useState
    isAISpeaking,         \* useState
    messages,             \* useState: the message list
    starts,               \* startSession invocations suspended at an await
    conns,                \* the sessions ai.live.connect has created
    sessionRef,           \* 0 (null) or the connection whose stop closure it holds
    userManuallyStopped,  \* useRef (variant 1)
    reconnectCountRef,    \* useRef (variant 1)
    nextStartTimeRef,     \* useRef
    sourcesRef,           \* useRef: the playing AudioBufferSourceNodes
    decoding,             \* onmessage handlers suspended at await decodeAudioData
    currentTime,          \* outputAudioCtx.currentTime
    currentInputText,     \* useRef
    currentOutputText,    \* useRef
    audioBufferQueue,     \* useRef
    sent,                 \* frames handed to session.sendRealtimeInput, in call order
    scheduled,            \* the source.start calls, in call order
    nFrames,              \* frames captured so far
    nChunks,              \* audio events delivered so far
    turns,                \* turnComplete events processed so far
    atTurn,               \* the accumulators as the last turnComplete found them
    drawn,                \* transcript characters and turnCompletes delivered so far
    connects,             \* calls of ai.live.connect so far
    startRequests,        \* start requests that passed the guard so far
    userStopped,          \* the user has pressed stop and not asked for a start since
    last,                 \* the life-cycle operation that ran last
    dateNow,              \* Date.now()
    globalBilingual,      \* useState
    translations,         \* handleTranslate invocations suspended at their await
    timers,               \* setTimeout(() => handleTranslate(id, aText), 100) pending
    settled,              \* the translation request that settled last, and how
    suggestions,          \* useState: TRUE when the suggestion list is not empty
    isGeneratingSuggestions,      \* useState (variants 2, 3)
    generating,           \* generateSuggestions invocations suspended at their await
    hasTriggeredSuggestionsRef,   \* useRef (variant 2)
    codec,                \* one captured sample on its way through the codec
    isOnline              \* navigator.onLine, which useState isOnline of variant 1 follows

vars == << budget, variant, isSessionActive, isConnecting, statusText, errorText,
           isAISpeaking, messages, starts, conns, sessionRef,
           userManuallyStopped, reconnectCountRef, nextStartTimeRef,
           sourcesRef, decoding, currentTime, currentInputText,
           currentOutputText, audioBufferQueue, sent, scheduled, nFrames,
           nChunks, turns, atTurn, drawn, connects, startRequests, userStopped, last,
           dateNow, globalBilingual, translations, timers, settled, suggestions,
           isGeneratingSuggestions, generating, hasTriggeredSuggestionsRef, codec,
           isOnline >>

lifecycleVars == << isSessionActive, isConnecting, statusText, errorText,
                    starts, conns, sessionRef, userManuallyStopped,
                    reconnectCountRef, connects, startRequests, userStopped >>
playbackVars  == << nextStartTimeRef, sourcesRef, decoding, scheduled >>
textVars      == << currentInputText, currentOutputText, messages, turns, atTurn >>
gateVars      == << audioBufferQueue, sent, nFrames >>
inboundVars   == << nChunks, drawn >>
translateVars == << translations, timers, settled >>
suggestVars   == << suggestions, isGeneratingSuggestions, generating,
                    hasTriggeredSuggestionsRef >>
panelVars     == << dateNow, globalBilingual, codec, isOnline >>

\* ----------------------------------------------------------------- helpers
Max(a, b) == IF a >= b THEN a ELSE b

Range(s) == { s[i] : i \in 1..Len(s) }

RECURSIVE TrimStart(_)
TrimStart(s) == IF s # << >> /\ Head(s) = " " THEN TrimStart(Tail(s)) ELSE s

RECURSIVE TrimEnd(_)
TrimEnd(s) ==
    IF s # << >> /\ s[Len(s)] = " " THEN TrimEnd(SubSeq(s, 1, Len(s) - 1)) ELSE s

Untrimmed(s) == s

\* String.prototype.trim, on a string held as a sequence of characters
Trim(s) == TrimEnd(TrimStart(s))

\* The connection status the presentation layer derives from the two flags.
ConnectionState ==
    IF isConnecting THEN "Connecting"
    ELSE IF isSessionActive THEN "Active"
    ELSE IF connects = 0 THEN "Idle"
    ELSE "Terminated"

Did(op) == last' = [op |-> op, from |-> ConnectionState, perm |-> FALSE]

DidError(p) == last' = [op |-> "onerror", from |-> ConnectionState, perm |-> p]

\* ------------------------------------------------------------- life cycle
NoError == "none"

Reacquired(cs, r) ==
    IF r = 0 THEN cs
    ELSE [cs EXCEPT ![r].capture = IF @ = "released" THEN "on" ELSE "released"]

\* stream.getTracks().forEach(t => t.stop()); scriptProcessor.disconnect();
\* source.disconnect(): the closure onopen stores in sessionRef.current
Released(cs, r) == IF r = 0 THEN cs ELSE [cs EXCEPT ![r].capture = "released"]

\* stopSession of variant 1, applied to the connections cs
stopSession(cs) ==
    /\ userManuallyStopped' = TRUE
    /\ conns' = Released(cs, sessionRef)
    /\ isSessionActive' = FALSE
    /\ isConnecting' = FALSE
    /\ statusText' = "ended"

RemoveAt(s, i) == SubSeq(s, 1, i - 1) \o SubSeq(s, i + 1, Len(s))

\* What the startSession of the current render, and the callbacks it creates,
\* see of the component's state for as long as they live.
Closure == [bilingual |-> globalBilingual, messages |-> messages,
            generating |-> isGeneratingSuggestions]

Suspended(at) == [at |-> at, env |-> Closure]

\* The start button (in variant 1 disabled while offline): startSession up to
\* its first await.
StartSession ==
    /\ ~isSessionActive /\ ~isConnecting
    /\ variant = 1 => isOnline
    /\ startRequests < budget.starts
    /\ startRequests' = startRequests + 1
    /\ CASE variant = 1 ->
              /\ starts' = Append(starts, Suspended("resume"))
              /\ UNCHANGED << isConnecting, errorText, statusText >>
         [] variant = 2 ->
              /\ errorText' = NoError
              /\ isConnecting' = TRUE
              /\ statusText' = "selfCheck"
              /\ starts' = Append(starts, Suspended("acquire"))
         [] variant = 3 ->
              \E secure \in BOOLEAN :
                 /\ statusText' = "selfCheck"
                 /\ IF secure
                    THEN /\ errorText' = NoError
                         /\ isConnecting' = TRUE
                         /\ starts' = Append(starts, Suspended("key"))
                    ELSE /\ errorText' = "needHttps"
                         /\ isConnecting' = FALSE
                         /\ starts' = starts
    /\ userStopped' = FALSE
    /\ Did("start")
    /\ UNCHANGED << budget, variant, isSessionActive, isAISpeaking, conns, sessionRef,
                    userManuallyStopped, reconnectCountRef, connects,
                    currentTime >>
    /\ UNCHANGED << playbackVars, textVars, gateVars, inboundVars >>
    /\ UNCHANGED << translateVars, suggestVars, panelVars >>

\* Variant 1: the two resume() awaits are over; startSession goes on.
StartResume ==
    \E i \in 1..Len(starts) :
       /\ starts[i].at = "resume"
       /\ isConnecting' = TRUE
       /\ errorText' = NoError
       /\ statusText' = "starting"
       /\ starts' = [starts EXCEPT ![i].at = "acquire"]
       /\ Did("startResume")
       /\ UNCHANGED << budget, variant, isSessionActive, isAISpeaking, conns, sessionRef,
                       userManuallyStopped, reconnectCountRef, connects,
                       startRequests, userStopped, currentTime >>
       /\ UNCHANGED << playbackVars, textVars, gateVars, inboundVars >>
       /\ UNCHANGED << translateVars, suggestVars, panelVars >>

\* Variant 3: ensureApiKey returns or throws.
StartKey ==
    \E i \in 1..Len(starts), ok \in BOOLEAN :
       /\ starts[i].at = "key"
       /\ IF ok
          THEN /\ starts' = [starts EXCEPT ![i].at = "acquire"]
               /\ statusText' = "startingMic"
               /\ UNCHANGED << errorText, isConnecting >>
          ELSE /\ starts' = RemoveAt(starts, i)
               /\ errorText' = "keyFailed"
               /\ isConnecting' = FALSE
               /\ UNCHANGED statusText
       /\ Did("startKey")
       /\ UNCHANGED << budget, variant, isSessionActive, isAISpeaking, conns, sessionRef,
                       userManuallyStopped, reconnectCountRef, connects,
                       startRequests, userStopped, currentTime >>
       /\ UNCHANGED << playbackVars, textVars, gateVars, inboundVars >>
       /\ UNCHANGED << translateVars, suggestVars, panelVars >>

NewConnection(env) ==
    [st |-> "pending", capture |-> "held", erred |-> FALSE, env |-> env]

\* The key check and getUserMedia fail (the catch block), or ai.live.connect is called.
StartAcquire ==
    \E i \in 1..Len(starts), outcome \in {"ok", "noKey", "micDenied"} :
       /\ starts[i].at = "acquire"
       /\ variant = 3 => outcome # "noKey"
       /\ starts' = RemoveAt(starts, i)
       /\ IF outcome = "ok"
          THEN /\ conns' = Append(conns, NewConnection(starts[i].env))
               /\ connects' = connects + 1
               /\ statusText' = IF variant = 3 THEN "calling" ELSE statusText
               /\ UNCHANGED << isConnecting, errorText >>
               /\ Did("startConnect")
          ELSE /\ isConnecting' = FALSE
               /\ errorText' = IF variant = 3 THEN "micFailed" ELSE "startFailed"
               /\ statusText' = IF variant = 3 THEN "failed" ELSE statusText
               /\ UNCHANGED << conns, connects >>
               /\ Did("startFailed")
       /\ UNCHANGED << budget, variant, isSessionActive, isAISpeaking, sessionRef,
                       userManuallyStopped, reconnectCountRef,
                       startRequests, userStopped, currentTime >>
       /\ UNCHANGED << playbackVars, textVars, gateVars, inboundVars >>
       /\ UNCHANGED << translateVars, suggestVars, panelVars >>

\* callbacks.onopen; a socket that has reported an error does not open later
OnOpen ==
    \E c \in 1..Len(conns) :
       /\ conns[c].st = "pending" /\ ~conns[c].erred
       /\ isSessionActive' = TRUE
       /\ isConnecting' = FALSE
       /\ statusText' = "inCall"
       /\ conns' = [conns EXCEPT ![c].st = "open", ![c].capture = "on"]
       /\ sessionRef' = c
       /\ Did("onopen")
       /\ UNCHANGED << budget, variant, errorText, isAISpeaking, starts,
                       userManuallyStopped, reconnectCountRef, connects,
                       startRequests, userStopped, currentTime >>
       /\ UNCHANGED << playbackVars, textVars, gateVars, inboundVars >>
       /\ UNCHANGED << translateVars, suggestVars, panelVars >>

OnErrorRetrying ==
    \E c \in 1..Len(conns), perm \in BOOLEAN :
       /\ conns[c].st \in {"pending", "open"} /\ ~conns[c].erred
       /\ reconnectCountRef < MAX_RECONNECT_ATTEMPTS
       /\ reconnectCountRef' = reconnectCountRef + 1
       /\ errorText' = IF perm THEN "invalidKey" ELSE errorText
       /\ stopSession([conns EXCEPT ![c].erred = TRUE])
       /\ DidError(perm)
       /\ UNCHANGED << budget, variant, isAISpeaking, starts, sessionRef,
                       connects, startRequests, userStopped, currentTime >>
       /\ UNCHANGED << playbackVars, textVars, gateVars, inboundVars >>
       /\ UNCHANGED << translateVars, suggestVars, panelVars >>

\* callbacks.onerror; perm: the message names a credential failure
\* ("Requested entity was not found", and in variant 3 also "403" / "401")
OnError ==
    \E c \in 1..Len(conns), perm \in BOOLEAN :
       /\ conns[c].st \in {"pending", "open"} /\ ~conns[c].erred
       /\ CASE variant = 1 ->
                 /\ errorText' = IF perm THEN "invalidKey" ELSE errorText
                 /\ stopSession([conns EXCEPT ![c].erred = TRUE])
            [] variant = 2 ->
                 /\ errorText' = "connectFailed"
                 /\ isSessionActive' = FALSE
                 /\ isConnecting' = FALSE
                 /\ statusText' = "connectFailed"
                 /\ conns' = [conns EXCEPT ![c].erred = TRUE]
                 /\ UNCHANGED userManuallyStopped
            [] variant = 3 ->
                 /\ errorText' = IF perm THEN "invalidKey" ELSE "connectFailed"
                 /\ isSessionActive' = FALSE
                 /\ isConnecting' = FALSE
                 /\ conns' = [conns EXCEPT ![c].erred = TRUE]
                 /\ UNCHANGED << userManuallyStopped, statusText >>
       /\ DidError(perm)
       /\ UNCHANGED << budget, variant, isAISpeaking, starts, sessionRef,
                       reconnectCountRef, connects, startRequests,
                       userStopped, currentTime >>
       /\ UNCHANGED << playbackVars, textVars, gateVars, inboundVars >>
       /\ UNCHANGED << translateVars, suggestVars, panelVars >>

\* callbacks.onclose
OnClose ==
    \E c \in 1..Len(conns) :
       /\ conns[c].st \in {"pending", "open"}
       /\ IF variant = 1
          THEN stopSession([conns EXCEPT ![c].st = "closed"])
          ELSE /\ isSessionActive' = FALSE
               /\ statusText' = "disconnected"
               /\ conns' = [conns EXCEPT ![c].st = "closed"]
               /\ UNCHANGED << isConnecting, userManuallyStopped >>
       /\ Did("onclose")
       /\ UNCHANGED << budget, variant, errorText, isAISpeaking, starts, sessionRef,
                       reconnectCountRef, connects, startRequests,
                       userStopped, currentTime >>
       /\ UNCHANGED << playbackVars, textVars, gateVars, inboundVars >>
       /\ UNCHANGED << translateVars, suggestVars, panelVars >>

\* The promise returned by ai.live.connect rejects and no callback is invoked.
\* sessionPromise is not awaited, and its only .then is the one in
\* onaudioprocess, so the rejection reaches no handler: the catch block of
\* startSession does not run and no state is set.
ConnectRejects ==
    \E c \in 1..Len(conns) :
       /\ conns[c].st = "pending" /\ ~conns[c].erred
       /\ conns' = [conns EXCEPT ![c].st = "rejected"]
       /\ Did("connectRejects")
       /\ UNCHANGED << budget, variant, isSessionActive, isConnecting, statusText,
                       errorText, isAISpeaking, starts, sessionRef,
                       userManuallyStopped, reconnectCountRef, connects,
                       startRequests, userStopped, currentTime >>
       /\ UNCHANGED << playbackVars, textVars, gateVars, inboundVars >>
       /\ UNCHANGED << translateVars, suggestVars, panelVars >>

\* The button while a session is active: stopSession (variant 1), toggleSession (2, 3)
StopClick ==
    /\ isSessionActive /\ ~isConnecting
    /\ variant = 1 => isOnline
    /\ CASE variant = 1 -> stopSession(conns)
         [] variant = 2 ->
              /\ conns' = Released(conns, sessionRef)
              /\ isSessionActive' = FALSE
              /\ UNCHANGED << isConnecting, statusText, userManuallyStopped >>
         [] variant = 3 ->
              /\ conns' = Released(conns, sessionRef)
              /\ isSessionActive' = FALSE
              /\ statusText' = "ended"
              /\ UNCHANGED << isConnecting, userManuallyStopped >>
    /\ userStopped' = TRUE
    /\ Did("stop")
    /\ UNCHANGED << budget, variant, errorText, isAISpeaking, starts, sessionRef,
                    reconnectCountRef, connects, startRequests, currentTime >>
    /\ UNCHANGED << playbackVars, textVars, gateVars, inboundVars >>
    /\ UNCHANGED << translateVars, suggestVars, panelVars >>

\* The window's 'offline' event.  handleOffline of variant 1: setIsOnline(false),
\* setErrorText, and stopSession if the session is active; variants 2 and 3
\* register no listener.
GoOffline ==
    /\ isOnline
    /\ isOnline' = FALSE
    /\ IF variant = 1
       THEN /\ errorText' = "offline"
            /\ IF isSessionActive
               THEN stopSession(conns)
               ELSE UNCHANGED << userManuallyStopped, conns, isSessionActive,
                                 isConnecting, statusText >>
       ELSE UNCHANGED << errorText, userManuallyStopped, conns, isSessionActive,
                         isConnecting, statusText >>
    /\ Did("offline")
    /\ UNCHANGED << budget, variant, isAISpeaking, starts, sessionRef,
                    reconnectCountRef, connects, startRequests, userStopped,
                    currentTime >>
    /\ UNCHANGED << playbackVars, textVars, gateVars, inboundVars >>
    /\ UNCHANGED << translateVars, suggestVars, dateNow, globalBilingual, codec >>

\* The window's 'online' event.  handleOnline of variant 1: setIsOnline(true),
\* setErrorText(null).
GoOnline ==
    /\ ~isOnline
    /\ isOnline' = TRUE
    /\ errorText' = IF variant = 1 THEN NoError ELSE errorText
    /\ Did("online")
    /\ UNCHANGED << budget, variant, isSessionActive, isConnecting, statusText,
                    isAISpeaking, starts, conns, sessionRef, userManuallyStopped,
                    reconnectCountRef, connects, startRequests, userStopped,
                    currentTime >>
    /\ UNCHANGED << playbackVars, textVars, gateVars, inboundVars >>
    /\ UNCHANGED << translateVars, suggestVars, dateNow, globalBilingual, codec >>

\* ------------------------------------------------------------ inbound events
\* A LiveServerMessage: audio is 0 (no inlineData), the chunk's duration, or
\* -1 (a payload of odd byte length); inText / outText are the transcription
\* deltas (<< >> when absent or empty: `text || ''`); tc is turnComplete.
\* A chunk that is scheduled has at least one sample frame, so its duration
\* is positive: createBuffer rejects a frame count of 0.
Deltas == { << >>, << "a" >>, << " " >> }

Messages(audios, deltas, tcs) ==
    [audio : audios, inText : deltas, outText : deltas, tc : tcs]

AllMessages == Messages(-1..MaxDur, Deltas, BOOLEAN)

\* translation: undefined, '' (an empty response, variant 1), a translation,
\* or the text shown in its place (variants 2, 3)
NoTranslation == "none"

Truthy == {"text", "unavailable"}

\* A new Message; prefix-Date.now() is its id, turn the turnComplete that made it.
Message(prefix, role, text, t) ==
    [id |-> [p |-> prefix, t |-> dateNow], role |-> role, text |-> text, turn |-> t,
     translation |-> NoTranslation, isTranslating |-> FALSE]

Greeting ==
    [id |-> [p |-> "1", t |-> 0], role |-> "ai", text |-> << "a" >>, turn |-> 0,
     translation |-> NoTranslation, isTranslating |-> FALSE]

EmitTurnAssistantFirst(msgs, uText, aText, t) ==
    LET withAi == IF aText # << >>
                  THEN Append(msgs, Message("a", "ai", aText, t))
                  ELSE msgs
    IN  IF uText # << >>
        THEN Append(withAi, Message("u", "user", uText, t))
        ELSE withAi

\* The two setMessages calls of a turnComplete: msgs after them.
EmitTurn(msgs, uText, aText, t) ==
    LET withUser == IF uText # << >>
                    THEN Append(msgs, Message("u", "user", uText, t))
                    ELSE msgs
    IN  IF aText # << >>
        THEN Append(withUser, Message("a", "ai", aText, t))
        ELSE withUser

\* prev.map(m => m.id === id ? { ...m, isTranslating: true } : m)
MarkTranslating(msgs, id) ==
    [i \in 1..Len(msgs) |->
        IF msgs[i].id = id THEN [msgs[i] EXCEPT !.isTranslating = TRUE] ELSE msgs[i]]

OnlyTranslated(msgs, id, tr) ==
    SelectSeq([i \in 1..Len(msgs) |->
                  [msgs[i] EXCEPT !.translation = tr, !.isTranslating = FALSE]],
              LAMBDA m : m.id = id)

\* prev.map(m => m.id === id ? { ...m, translation, isTranslating: false } : m)
SetTranslation(msgs, id, tr) ==
    [i \in 1..Len(msgs) |->
        IF msgs[i].id = id
        THEN [msgs[i] EXCEPT !.translation = tr, !.isTranslating = FALSE]
        ELSE msgs[i]]

\* prev.map(m => m.id === id ? { ...m, isTranslating: false } : m)
ClearTranslating(msgs, id) ==
    [i \in 1..Len(msgs) |->
        IF msgs[i].id = id THEN [msgs[i] EXCEPT !.isTranslating = FALSE] ELSE msgs[i]]

\* messages.find(m => m.id === id): its index, 0 when there is none
Find(msgs, id) ==
    LET S == { i \in 1..Len(msgs) : msgs[i].id = id }
    IN  IF S = {} THEN 0 ELSE CHOOSE i \in S : \A j \in S : i <= j

\* The guard of handleTranslate in variants 2 and 3, on the messages its
\* closure holds: if (msg?.translation || msg?.isTranslating) return
AlreadyTranslated(msgs, id) ==
    LET i == Find(msgs, id)
    IN  i # 0 /\ (msgs[i].translation \in Truthy \/ msgs[i].isTranslating)

\* onmessage after the audio part: the transcription deltas and turnComplete,
\* in the closure env of the session.  With globalBilingual set, variant 1
\* arms a timer for handleTranslate and variants 2 and 3 call it at once.
\* (generateSuggestions, called here by variants 1 and 3, returns at its
\* guard: the isSessionActive of the closure is false.)
HandleText(m, env) ==
    LET inAcc  == currentInputText \o m.inText
        outAcc == currentOutputText \o m.outText
        aText  == Trim(outAcc)
        msgs   == EmitTurn(messages, Trim(inAcc), aText, turns + 1)
        aId    == [p |-> "a", t |-> dateNow]
        req    == [id |-> aId, idx |-> Len(msgs)]
        auto   == aText # << >> /\ env.bilingual
        call   == auto /\ variant # 1 /\ ~AlreadyTranslated(env.messages, aId)
    IN  IF m.tc
           THEN /\ messages' = IF call THEN MarkTranslating(msgs, aId) ELSE msgs
                /\ translations' = IF call THEN Append(translations, req)
                                   ELSE translations
                /\ timers' = IF auto /\ variant = 1 THEN Append(timers, req)
                             ELSE timers
                /\ UNCHANGED settled
                /\ currentInputText' = << >>
                /\ currentOutputText' = << >>
                /\ turns' = turns + 1
                /\ atTurn' = [u |-> inAcc, a |-> outAcc]
           ELSE /\ currentInputText' = inAcc
                /\ currentOutputText' = outAcc
                /\ UNCHANGED << messages, turns, atTurn, translateVars >>

\* The top of onmessage in variant 2: the first event of a turn that carries
\* a modelTurn or an outputTranscription calls generateSuggestions, which
\* returns at once if the closure's isGeneratingSuggestions is set; the
\* turnComplete of the event (done: it is processed in this step) rearms it.
TriggerSuggestions(m, env, done) ==
    LET fire == /\ variant = 2
                /\ m.audio # 0 \/ m.outText # << >>
                /\ ~hasTriggeredSuggestionsRef
        call == fire /\ ~env.generating
    IN  /\ hasTriggeredSuggestionsRef' =
              IF variant = 2 /\ done THEN FALSE
              ELSE (hasTriggeredSuggestionsRef \/ fire)
        /\ isGeneratingSuggestions' = (isGeneratingSuggestions \/ call)
        /\ generating' = IF call THEN generating + 1 ELSE generating
        /\ UNCHANGED suggestions

\* drawn.u, drawn.a: the log of Received; drawn.due: what the log held when
\* the last turnComplete event arrived.
\* The events the remote service may still deliver within the budget.
Admissible(m) ==
    /\ m.audio # 0 => nChunks < budget.chunks /\ m.audio <= budget.dur
    /\ drawn.chars + Len(m.inText) + Len(m.outText) <= budget.text
    /\ m.tc => drawn.tcs < budget.turns

\* The transcription deltas received since the last turnComplete event, in
\* the order in which the events arrived, the deltas of m included (a log
\* that is kept only in the runs whose budget asks for it).
NothingReceived == [u |-> << >>, a |-> << >>]

Received(m) ==
    IF budget.log
    THEN [u |-> drawn.u \o m.inText, a |-> drawn.a \o m.outText]
    ELSE NothingReceived

Draw(m) ==
    /\ nChunks' = IF m.audio # 0 THEN nChunks + 1 ELSE nChunks
    /\ drawn' = [drawn EXCEPT
                   !.chars = @ + Len(m.inText) + Len(m.outText),
                   !.tcs = IF m.tc THEN @ + 1 ELSE @,
                   !.u = IF m.tc THEN << >> ELSE Received(m).u,
                   !.a = IF m.tc THEN << >> ELSE Received(m).a,
                   !.due = IF m.tc THEN Received(m) ELSE @]

ClampToClock(next, now) == now

\* nextStartTimeRef.current = Math.max(nextStartTimeRef.current, ctx.currentTime)
Clamp(next, now) == Max(next, now)

\* What an event with audio finds when it arrives: the playback clock,
\* whether nextStartTimeRef has not fallen behind it, and whether anything
\* is playing (kept, like Received, only in the runs whose budget asks for
\* the log).
Arrival ==
    IF budget.log
    THEN [clock |-> currentTime, ahead |-> nextStartTimeRef >= currentTime,
          idle |-> sourcesRef = {}]
    ELSE [clock |-> 0, ahead |-> TRUE, idle |-> TRUE]

\* callbacks.onmessage up to `await decodeAudioData` (an event with audio), or
\* to its end (an event without).
OnMessageFrom(msgs) ==
    \E c \in 1..Len(conns), m \in msgs :
       /\ conns[c].st = "open"
       /\ Admissible(m)
       /\ Draw(m)
       /\ TriggerSuggestions(m, conns[c].env, m.audio = 0 /\ m.tc)
       /\ IF m.audio # 0
          THEN /\ nextStartTimeRef' = Clamp(nextStartTimeRef, currentTime)
               /\ decoding' = Append(decoding,
                                [id |-> nChunks + 1, msg |-> m, c |-> c,
                                 waiting |-> Len(decoding),
                                 arrived |-> Arrival,
                                 due |-> IF m.tc THEN Received(m)
                                         ELSE NothingReceived])
               /\ UNCHANGED << sourcesRef, scheduled, textVars, translateVars >>
          ELSE /\ HandleText(m, conns[c].env)
               /\ UNCHANGED playbackVars
       /\ UNCHANGED last
       /\ UNCHANGED << budget, variant, isAISpeaking, currentTime >>
       /\ UNCHANGED << lifecycleVars, gateVars, panelVars >>

AdvanceFromClock(next, d) == currentTime + d

\* nextStartTimeRef.current += audioBuffer.duration
Advance(next, d) == next + d

\* The suspended handlers resume in the order in which they awaited: each
\* awaits one promise of an async function that never suspends itself.
LastToResume(d) == Len(d)

NextToResume(d) == 1

\* callbacks.onmessage from `await decodeAudioData` on: new Int16Array throws
\* a RangeError on an odd byte length and the handler ends there; otherwise the
\* source is started at nextStartTimeRef and the rest of the handler runs.
Resume ==
    /\ decoding # << >>
    /\ LET k == NextToResume(decoding)
           h == decoding[k]
           d == h.msg.audio
       IN  /\ decoding' = RemoveAt(decoding, k)
           /\ IF d = -1
              THEN UNCHANGED << nextStartTimeRef, sourcesRef, scheduled, textVars,
                                translateVars, suggestVars >>
              ELSE /\ HandleText(h.msg, conns[h.c].env)
                   /\ hasTriggeredSuggestionsRef' =
                         IF variant = 2 /\ h.msg.tc THEN FALSE
                         ELSE hasTriggeredSuggestionsRef
                   /\ UNCHANGED << suggestions, isGeneratingSuggestions, generating >>
                   /\ sourcesRef' = sourcesRef \cup
                         { [id |-> h.id, end |-> Max(nextStartTimeRef, currentTime) + d] }
                   /\ scheduled' = Append(scheduled,
                         [id |-> h.id, start |-> nextStartTimeRef, dur |-> d,
                          waiting |-> h.waiting, arrived |-> h.arrived])
                   /\ nextStartTimeRef' = Advance(nextStartTimeRef, d)
    /\ UNCHANGED last
    /\ UNCHANGED << budget, variant, isAISpeaking, currentTime, nChunks, drawn >>
    /\ UNCHANGED << lifecycleVars, gateVars, panelVars >>

\* source.onended / the 'ended' listener: sourcesRef.current.delete(source)
SourceEnded ==
    \E s \in sourcesRef :
       /\ currentTime >= s.end
       /\ sourcesRef' = sourcesRef \ {s}
       /\ UNCHANGED last
       /\ UNCHANGED << budget, variant, isAISpeaking, currentTime, nextStartTimeRef,
                       decoding, scheduled, nChunks, drawn >>
       /\ UNCHANGED << lifecycleVars, textVars, gateVars >>
       /\ UNCHANGED << translateVars, suggestVars, panelVars >>

\* The playback clock advances.
ClockTick ==
    /\ currentTime < budget.time
    /\ currentTime' = currentTime + 1
    /\ UNCHANGED last
    /\ UNCHANGED << budget, variant, isAISpeaking >>
    /\ UNCHANGED << lifecycleVars, playbackVars, textVars, gateVars, inboundVars >>
    /\ UNCHANGED << translateVars, suggestVars, panelVars >>

\* The playback clock keeps advancing for as long as something is playing,
\* also past the last reading at which the run still takes events.
PlayOut ==
    /\ currentTime >= budget.time
    /\ \E s \in sourcesRef : currentTime < s.end
    /\ currentTime' = currentTime + 1
    /\ UNCHANGED last
    /\ UNCHANGED << budget, variant, isAISpeaking >>
    /\ UNCHANGED << lifecycleVars, playbackVars, textVars, gateVars, inboundVars >>
    /\ UNCHANGED << translateVars, suggestVars, panelVars >>

\* ------------------------------------------------------------ capture gate
GatedBySignal(sources) == isAISpeaking

\* if (sourcesRef.current.size > 0) audioBufferQueue.current.push(pcmBlob)
Gated(sources) == sources # {}

\* scriptProcessor.onaudioprocess of connection c and its sessionPromise.then
Capture ==
    \E c \in 1..Len(conns) :
       /\ conns[c].capture = "on"
       /\ nFrames < budget.frames
       /\ nFrames' = nFrames + 1
       /\ LET frame == [f |-> nFrames + 1, open |-> conns[c].st = "open"]
          IN  IF Gated(sourcesRef)
              THEN /\ audioBufferQueue' = Append(audioBufferQueue, frame.f)
                   /\ UNCHANGED sent
              ELSE /\ sent' = Append(sent, frame)
                   /\ UNCHANGED audioBufferQueue
       /\ UNCHANGED last
       /\ UNCHANGED << budget, variant, isAISpeaking, currentTime >>
       /\ UNCHANGED << lifecycleVars, playbackVars, textVars, inboundVars >>
       /\ UNCHANGED << translateVars, suggestVars, panelVars >>

WithSendRealtimeInput == {"stop", "stopStream", "sendRealtimeInput"}

\* What the object in sessionRef.current can do: onopen stores only a stop
\* closure there ({ stop } in variant 1, { stopStream } in variants 2 and 3).
SessionRefMethods == IF variant = 1 THEN {"stop"} ELSE {"stopStream"}

\* The queue drain of the checkStatus interval (variants 2 and 3):
\* forEach(blob => sessionRef.current.sendRealtimeInput(...)), then the queue
\* is replaced by [].  Calling a method the object lacks throws a TypeError
\* at the first blob, before anything is sent or cleared.
Drain ==
    IF "sendRealtimeInput" \in SessionRefMethods
    THEN /\ sent' = sent \o
                [i \in 1..Len(audioBufferQueue) |->
                    [f |-> audioBufferQueue[i],
                     open |-> conns[sessionRef].st = "open"]]
         /\ audioBufferQueue' = << >>
    ELSE UNCHANGED << sent, audioBufferQueue >>

SeenAtMount == FALSE

\* The isAISpeaking the interval callback compares with: the effect that
\* creates the interval runs again whenever isAISpeaking changes.
SeenByInterval == isAISpeaking

\* The checkStatus interval (every 100 ms)
CheckStatus ==
    LET active == sourcesRef # {}
    IN  /\ active # SeenByInterval
        /\ isAISpeaking' = active
        /\ IF variant # 1 /\ ~active /\ audioBufferQueue # << >> /\ sessionRef # 0
           THEN Drain
           ELSE UNCHANGED << sent, audioBufferQueue >>
        /\ UNCHANGED last
        /\ UNCHANGED << budget, variant, currentTime, nFrames >>
        /\ UNCHANGED << lifecycleVars, playbackVars, textVars, inboundVars >>
        /\ UNCHANGED << translateVars, suggestVars, panelVars >>

\* ---------------------------------------------------- translation, suggestions
\* Date.now() advances.
NowTick ==
    /\ dateNow < budget.now
    /\ dateNow' = dateNow + 1
    /\ UNCHANGED last
    /\ UNCHANGED << budget, variant, isAISpeaking, currentTime, globalBilingual, codec,
                    isOnline >>
    /\ UNCHANGED << lifecycleVars, playbackVars, textVars, gateVars, inboundVars >>
    /\ UNCHANGED << translateVars, suggestVars >>

\* The bilingual switch: setGlobalBilingual(!globalBilingual)
ToggleBilingual ==
    /\ drawn.toggles < budget.toggles
    /\ drawn' = [drawn EXCEPT !.toggles = @ + 1]
    /\ globalBilingual' = ~globalBilingual
    /\ UNCHANGED last
    /\ UNCHANGED << budget, variant, isAISpeaking, currentTime, dateNow, codec, nChunks,
                    isOnline >>
    /\ UNCHANGED << lifecycleVars, playbackVars, textVars, gateVars >>
    /\ UNCHANGED << translateVars, suggestVars >>

\* handleTranslate(id, text) up to its await, for the Message at idx, with the
\* messages its closure holds.  Variant 1 asks for process.env.API_KEY first
\* (keyed) and has no other guard.
handleTranslate(id, idx, closureMessages, keyed) ==
    LET req == [id |-> id, idx |-> idx]
    IN  CASE variant = 1 /\ ~keyed ->
                /\ errorText' = "needKey"
                /\ UNCHANGED << messages, translations >>
          [] variant = 1 /\ keyed ->
                /\ messages' = MarkTranslating(messages, id)
                /\ translations' = Append(translations, req)
                /\ UNCHANGED errorText
          [] variant # 1 ->
                /\ IF AlreadyTranslated(closureMessages, id)
                   THEN UNCHANGED << messages, translations >>
                   ELSE /\ messages' = MarkTranslating(messages, id)
                        /\ translations' = Append(translations, req)
                /\ UNCHANGED errorText

\* The translate button of an assistant Message, where it is rendered.
TranslateButton(m) ==
    /\ m.role = "ai"
    /\ m.translation \notin Truthy
    /\ variant = 1 => ~m.isTranslating /\ ~globalBilingual

TranslateClick ==
    \E i \in 1..Len(messages), keyed \in BOOLEAN :
       /\ drawn.clicks < budget.clicks
       /\ TranslateButton(messages[i])
       /\ variant # 1 => keyed
       /\ drawn' = [drawn EXCEPT !.clicks = @ + 1]
       /\ handleTranslate(messages[i].id, i, messages, keyed)
       /\ UNCHANGED last
       /\ UNCHANGED << budget, variant, isAISpeaking, currentTime, nChunks,
                       timers, settled >>
       /\ UNCHANGED << isSessionActive, isConnecting, statusText, starts, conns,
                       sessionRef, userManuallyStopped, reconnectCountRef,
                       connects, startRequests, userStopped >>
       /\ UNCHANGED << currentInputText, currentOutputText, turns, atTurn >>
       /\ UNCHANGED << playbackVars, gateVars, suggestVars, panelVars >>

\* Variant 1: the 100 ms timer armed by a turnComplete fires.
TranslateTimer ==
    \E keyed \in BOOLEAN :
       /\ timers # << >>
       /\ timers' = Tail(timers)
       /\ handleTranslate(timers[1].id, timers[1].idx, messages, keyed)
       /\ UNCHANGED last
       /\ UNCHANGED << budget, variant, isAISpeaking, currentTime, settled >>
       /\ UNCHANGED << isSessionActive, isConnecting, statusText, starts, conns,
                       sessionRef, userManuallyStopped, reconnectCountRef,
                       connects, startRequests, userStopped >>
       /\ UNCHANGED << currentInputText, currentOutputText, turns, atTurn >>
       /\ UNCHANGED << playbackVars, gateVars, inboundVars, suggestVars, panelVars >>

\* response.text?.trim() (variant 1), response.text?.trim() || "翻译暂时不可用。"
Translation(response) ==
    IF response = "text" THEN "text"
    ELSE IF variant = 1 THEN "empty" ELSE "unavailable"

\* handleTranslate from its await on: generateContent has answered with a
\* text or with none, or has failed (the catch block).
TranslateSettles ==
    \E k \in 1..Len(translations), outcome \in {"text", "empty", "failed"} :
       LET r == translations[k]
       IN  /\ translations' = RemoveAt(translations, k)
           /\ messages' = IF outcome = "failed"
                          THEN ClearTranslating(messages, r.id)
                          ELSE SetTranslation(messages, r.id, Translation(outcome))
           /\ settled' = [idx |-> r.idx, outcome |-> outcome]
           /\ UNCHANGED last
           /\ UNCHANGED << budget, variant, isAISpeaking, currentTime, timers >>
           /\ UNCHANGED << currentInputText, currentOutputText, turns, atTurn >>
           /\ UNCHANGED << lifecycleVars, playbackVars, gateVars, inboundVars >>
           /\ UNCHANGED << suggestVars, panelVars >>

\* The refresh button of the suggestion panel (variants 2 and 3; the
\* difficulty buttons of variant 3 make the same call): generateSuggestions
\* up to its await.  Variant 1 calls generateSuggestions only from onmessage,
\* where it returns at its guard.
RefreshSuggestions ==
    /\ variant # 1
    /\ isSessionActive /\ ~isGeneratingSuggestions
    /\ drawn.refreshes < budget.refreshes
    /\ drawn' = [drawn EXCEPT !.refreshes = @ + 1]
    /\ isGeneratingSuggestions' = TRUE
    /\ generating' = generating + 1
    /\ UNCHANGED last
    /\ UNCHANGED << budget, variant, isAISpeaking, currentTime, nChunks,
                    suggestions, hasTriggeredSuggestionsRef >>
    /\ UNCHANGED << lifecycleVars, playbackVars, textVars, gateVars >>
    /\ UNCHANGED << translateVars, panelVars >>

\* generateSuggestions from its await on: setSuggestions(JSON.parse(text))
\* with a list or with [], or the catch block; then the finally block.
SuggestionsSettle ==
    \E outcome \in {"list", "empty", "failed"} :
       /\ generating > 0
       /\ generating' = generating - 1
       /\ suggestions' = CASE outcome = "list" -> TRUE
                           [] outcome = "empty" -> FALSE
                           [] outcome = "failed" -> suggestions
       /\ isGeneratingSuggestions' = FALSE
       /\ UNCHANGED last
       /\ UNCHANGED << budget, variant, isAISpeaking, currentTime,
                       hasTriggeredSuggestionsRef >>
       /\ UNCHANGED << lifecycleVars, playbackVars, textVars, gateVars, inboundVars >>
       /\ UNCHANGED << translateVars, panelVars >>

\* The suggestion list, where it is rendered.
SuggestionButtons ==
    /\ suggestions
    /\ variant # 1 => isSessionActive
    /\ variant = 2 => ~isGeneratingSuggestions

\* A click on a suggestion: setMessages(prev => [...prev, { id, role, text }])
SuggestionClick ==
    /\ SuggestionButtons
    /\ drawn.hints < budget.hints
    /\ drawn' = [drawn EXCEPT !.hints = @ + 1]
    /\ messages' = Append(messages,
                     Message(IF variant = 1 THEN "u" ELSE "u-hint", "user", << "a" >>, 0))
    /\ UNCHANGED last
    /\ UNCHANGED << budget, variant, isAISpeaking, currentTime, nChunks >>
    /\ UNCHANGED << currentInputText, currentOutputText, turns, atTurn >>
    /\ UNCHANGED << lifecycleVars, playbackVars, gateVars >>
    /\ UNCHANGED << translateVars, suggestVars, panelVars >>

\* -------------------------------------------------------------------- codec
\* A sample s in [-1, 1] is held as the integer s * 32768.
Int16Scale == 32768

Samples == (0 - Int16Scale) .. Int16Scale

\* Storing a number in an Int16Array: truncated, then taken modulo 2^16 into
\* the signed range.
ToInt16(x) == ((x + Int16Scale) % (2 * Int16Scale)) - Int16Scale

\* new Uint8Array(int16.buffer): the two bytes of one element, low byte first
Uint8Array(v) == LET u == v % (2 * Int16Scale) IN << u % 256, u \div 256 >>

\* encode: btoa of two bytes, as three base64 digits and the padding
encode(bytes) ==
    << bytes[1] \div 4,
       (bytes[1] % 4) * 16 + bytes[2] \div 16,
       (bytes[2] % 16) * 4,
       "=" >>

\* decode: atob, back to the two bytes
decode(base64) ==
    << base64[1] * 4 + base64[2] \div 16,
       (base64[2] % 16) * 16 + base64[3] \div 4 >>

\* new Int16Array(data.buffer): one element from its two bytes
Int16Array(bytes) ==
    LET u == bytes[1] + 256 * bytes[2]
    IN  IF u >= Int16Scale THEN u - 2 * Int16Scale ELSE u

\* onaudioprocess: int16[i] = inputData[i] * 32768, then the blob's data
Quantize ==
    /\ codec.phase = "captured"
    /\ codec' = [codec EXCEPT !.phase = "encoded",
                              !.data = encode(Uint8Array(ToInt16(codec.s)))]
    /\ UNCHANGED last
    /\ UNCHANGED << budget, variant, isAISpeaking, currentTime, dateNow, globalBilingual,
                    isOnline >>
    /\ UNCHANGED << lifecycleVars, playbackVars, textVars, gateVars, inboundVars >>
    /\ UNCHANGED << translateVars, suggestVars >>

\* decodeAudioData(decode(data)): channelData[i] = dataInt16[i] / 32768.0
Dequantize ==
    /\ codec.phase = "encoded"
    /\ codec' = [codec EXCEPT !.phase = "decoded",
                              !.out = Int16Array(decode(codec.data))]
    /\ UNCHANGED last
    /\ UNCHANGED << budget, variant, isAISpeaking, currentTime, dateNow, globalBilingual,
                    isOnline >>
    /\ UNCHANGED << lifecycleVars, playbackVars, textVars, gateVars, inboundVars >>
    /\ UNCHANGED << translateVars, suggestVars >>

\* ------------------------------------------------------------ specification
Start ==
    /\ variant \in Variants
    /\ isSessionActive = FALSE
    /\ isConnecting = FALSE
    /\ statusText = "waiting"
    /\ errorText = NoError
    /\ isAISpeaking = FALSE
    /\ messages = << Greeting >>
    /\ starts = << >>
    /\ conns = << >>
    /\ sessionRef = 0
    /\ userManuallyStopped = FALSE
    /\ reconnectCountRef = 0
    /\ nextStartTimeRef = 0
    /\ sourcesRef = {}
    /\ decoding = << >>
    /\ currentTime = 0
    /\ currentInputText = << >>
    /\ currentOutputText = << >>
    /\ audioBufferQueue = << >>
    /\ sent = << >>
    /\ scheduled = << >>
    /\ nFrames = 0
    /\ nChunks = 0
    /\ turns = 0
    /\ atTurn = [u |-> << >>, a |-> << >>]
    /\ drawn = [chars |-> 0, tcs |-> 0, toggles |-> 0, clicks |-> 0,
                hints |-> 0, refreshes |-> 0, u |-> << >>, a |-> << >>,
                due |-> NothingReceived]
    /\ connects = 0
    /\ startRequests = 0
    /\ userStopped = FALSE
    /\ last = [op |-> "init", from |-> "Idle", perm |-> FALSE]
    /\ dateNow = 0
    /\ globalBilingual = FALSE
    /\ translations = << >>
    /\ timers = << >>
    /\ settled = [idx |-> 0, outcome |-> "none"]
    /\ suggestions = FALSE
    /\ isGeneratingSuggestions = FALSE
    /\ generating = 0
    /\ hasTriggeredSuggestionsRef = FALSE
    /\ isOnline = TRUE

NoBudget == [starts |-> 0, frames |-> 0, chunks |-> 0, dur |-> 0,
             time |-> 0, text |-> 0, turns |-> 0, now |-> 0, toggles |-> 0,
             clicks |-> 0, hints |-> 0, refreshes |-> 0, log |-> FALSE]

NoSample == [phase |-> "none", s |-> 0, data |-> << >>, out |-> 0]

OnMessage == OnMessageFrom(AllMessages)

\* The session life cycle: every ordering of start requests, stops and
\* remote opened / error / closed events.
Init ==
    /\ Start
    /\ codec = NoSample
    /\ budget = [NoBudget EXCEPT !.starts = MaxStarts]

Next ==
    \/ StartSession
    \/ StartResume
    \/ StartKey
    \/ StartAcquire
    \/ OnOpen
    \/ OnError
    \/ OnClose
    \/ StopClick

Spec == Init /\ [][Next]_vars

\* The capture gate: one session, its capture callback, the inbound audio
\* that makes the assistant speak, and the checkStatus interval.
GateInit ==
    /\ Start
    /\ codec = NoSample
    /\ budget = [NoBudget EXCEPT !.starts = 1, !.frames = MaxFrames,
                                 !.chunks = 1, !.dur = 1, !.time = MaxTime]

GateNext ==
    \/ StartSession
    \/ StartResume
    \/ StartKey
    \/ StartAcquire
    \/ OnOpen
    \/ OnError
    \/ OnClose
    \/ StopClick
    \/ OnMessage
    \/ Resume
    \/ SourceEnded
    \/ ClockTick
    \/ Capture
    \/ CheckStatus

GateSpec == GateInit /\ [][GateNext]_vars

\* Playback scheduling: one session and its inbound audio.
PlaybackInit ==
    /\ Start
    /\ codec = NoSample
    /\ budget = [NoBudget EXCEPT !.starts = 1, !.chunks = MaxChunks,
                                 !.dur = MaxDur, !.time = MaxTime]

PlaybackNext ==
    \/ StartSession
    \/ StartResume
    \/ StartKey
    \/ StartAcquire
    \/ OnOpen
    \/ OnClose
    \/ OnMessage
    \/ Resume
    \/ SourceEnded
    \/ ClockTick

PlaybackSpec == PlaybackInit /\ [][PlaybackNext]_vars

\* A burst of short chunks: one session, audio events that arrive while
\* earlier ones are being decoded or played.
BurstInit ==
    /\ Start
    /\ codec = NoSample
    /\ budget = [NoBudget EXCEPT !.starts = 1, !.chunks = MaxBurst,
                                 !.dur = 1, !.time = 2, !.log = TRUE]

BurstNext ==
    \/ StartSession
    \/ StartResume
    \/ StartKey
    \/ StartAcquire
    \/ OnOpen
    \/ OnMessage
    \/ Resume
    \/ SourceEnded
    \/ ClockTick

BurstSpec == BurstInit /\ [][BurstNext]_vars

\* The transcript: one session, its transcription deltas and turn boundaries,
\* carried by events with or without audio.
TextInit ==
    /\ Start
    /\ codec = NoSample
    /\ budget = [NoBudget EXCEPT !.starts = 1, !.chunks = 1, !.dur = 1,
                                 !.text = MaxText, !.turns = MaxTurns]

TextNext ==
    \/ StartSession
    \/ StartResume
    \/ StartKey
    \/ StartAcquire
    \/ OnOpen
    \/ OnClose
    \/ OnMessage
    \/ Resume

TextSpec == TextInit /\ [][TextNext]_vars

\* The codec: every sample of [-1, 1] on the 16-bit grid, quantized by the
\* capture callback and decoded as inbound audio is.
CodecInit ==
    /\ Start
    /\ budget = NoBudget
    /\ codec \in [phase : {"captured"}, s : Samples, data : {<< >>}, out : {0}]

CodecNext ==
    \/ Quantize
    \/ Dequantize

CodecSpec == CodecInit /\ [][CodecNext]_vars

\* Message ids: one session, its turns, suggestion clicks, and Date.now().
IdInit ==
    /\ Start
    /\ codec = NoSample
    /\ budget = [NoBudget EXCEPT !.starts = 1, !.text = 2, !.turns = MaxTurns,
                                 !.now = MaxNow, !.hints = MaxHints,
                                 !.refreshes = 1]

IdNext ==
    \/ StartSession
    \/ StartResume
    \/ StartKey
    \/ StartAcquire
    \/ OnOpen
    \/ OnMessage
    \/ NowTick
    \/ RefreshSuggestions
    \/ SuggestionsSettle
    \/ SuggestionClick

IdSpec == IdInit /\ [][IdNext]_vars

\* Translation: one session, its turns, the bilingual switch, the translate
\* buttons and the answers of the translation service.
TranslateInit ==
    /\ Start
    /\ codec = NoSample
    /\ budget = [NoBudget EXCEPT !.starts = 1, !.text = 2, !.turns = MaxTurns,
                                 !.now = MaxNow, !.toggles = 1,
                                 !.clicks = MaxClicks]

TranslateNext ==
    \/ StartSession
    \/ StartResume
    \/ StartKey
    \/ StartAcquire
    \/ OnOpen
    \/ OnMessage
    \/ NowTick
    \/ ToggleBilingual
    \/ TranslateClick
    \/ TranslateTimer
    \/ TranslateSettles

TranslateSpec == TranslateInit /\ [][TranslateNext]_vars

\* The message list: one session, its turns, and everything else that calls
\* setMessages: suggestion clicks and translation requests.
TranscriptInit ==
    /\ Start
    /\ codec = NoSample
    /\ budget = [NoBudget EXCEPT !.starts = 1, !.text = 2, !.turns = 2,
                                 !.toggles = 1, !.clicks = MaxClicks,
                                 !.hints = 1, !.refreshes = 1]

TranscriptNext ==
    \/ StartSession
    \/ StartResume
    \/ StartKey
    \/ StartAcquire
    \/ OnOpen
    \/ OnMessage
    \/ ToggleBilingual
    \/ TranslateClick
    \/ TranslateTimer
    \/ TranslateSettles
    \/ RefreshSuggestions
    \/ SuggestionsSettle
    \/ SuggestionClick

TranscriptSpec == TranscriptInit /\ [][TranscriptNext]_vars

\* The speaking signal: one session, its inbound audio, the playback clock
\* and the checkStatus interval.  The clock runs, decoded chunks are started,
\* finished sources report their end and the interval keeps firing.
SpeakingInit ==
    /\ Start
    /\ codec = NoSample
    /\ budget = [NoBudget EXCEPT !.starts = 1, !.chunks = MaxChunks,
                                 !.dur = 1, !.time = 1]

SpeakingNext ==
    \/ StartSession
    \/ StartResume
    \/ StartKey
    \/ StartAcquire
    \/ OnOpen
    \/ OnClose
    \/ OnMessage
    \/ Resume
    \/ SourceEnded
    \/ ClockTick
    \/ PlayOut
    \/ CheckStatus

SpeakingSpec ==
    /\ SpeakingInit /\ [][SpeakingNext]_vars
    /\ WF_vars(Resume)
    /\ WF_vars(SourceEnded)
    /\ WF_vars(ClockTick)
    /\ WF_vars(PlayOut)
    /\ WF_vars(CheckStatus)

\* The transcript with the log of arrivals: one session, its transcription
\* deltas and turn boundaries, carried by events with or without audio.
ArrivalInit ==
    /\ Start
    /\ codec = NoSample
    /\ budget = [NoBudget EXCEPT !.starts = 1, !.chunks = 1, !.dur = 1,
                                 !.text = MaxText, !.turns = MaxTurns,
                                 !.log = TRUE]

ArrivalNext ==
    \/ StartSession
    \/ StartResume
    \/ StartKey
    \/ StartAcquire
    \/ OnOpen
    \/ OnMessage
    \/ Resume

ArrivalSpec == ArrivalInit /\ [][ArrivalNext]_vars

\* The handshake: every start request runs on, and every connection that is
\* being opened gets its answer: it opens, reports an error, closes, or the
\* connect call rejects.
HandshakeInit ==
    /\ Start
    /\ codec = NoSample
    /\ budget = [NoBudget EXCEPT !.starts = MaxStarts]

Answer ==
    \/ OnOpen
    \/ OnError
    \/ OnClose
    \/ ConnectRejects

HandshakeNext ==
    \/ StartSession
    \/ StartResume
    \/ StartKey
    \/ StartAcquire
    \/ OnOpen
    \/ OnError
    \/ OnClose
    \/ ConnectRejects
    \/ StopClick

HandshakeSpec ==
    /\ HandshakeInit /\ [][HandshakeNext]_vars
    /\ WF_vars(StartResume)
    /\ WF_vars(StartKey)
    /\ WF_vars(StartAcquire)
    /\ WF_vars(Answer)

\* The network: the session life cycle while the browser goes offline and
\* comes back.
OfflineInit ==
    /\ Start
    /\ codec = NoSample
    /\ budget = [NoBudget EXCEPT !.starts = MaxStarts]

OfflineNext ==
    \/ StartSession
    \/ StartResume
    \/ StartKey
    \/ StartAcquire
    \/ OnOpen
    \/ OnError
    \/ OnClose
    \/ StopClick
    \/ GoOffline
    \/ GoOnline

OfflineSpec == OfflineInit /\ [][OfflineNext]_vars

GateFairSpec ==
    /\ GateSpec
    /\ WF_vars(Resume)
    /\ WF_vars(ClockTick)
    /\ WF_vars(SourceEnded)
    /\ WF_vars(CheckStatus)

\* ------------------------------------------------------------------ claims
SentIds == [i \in 1..Len(sent) |-> sent[i].f]

IsBlank(s) == \A i \in 1..Len(s) : s[i] = " "

NonBlank(s) == IF IsBlank(s) THEN 0 ELSE 1

\* C1: the frames submitted to the remote session have strictly increasing
\* capture indices, and no frame is submitted while an earlier-captured frame
\* is still waiting in the pending queue.
C1_CaptureOrdering ==
    /\ \A i, j \in 1..Len(sent) : i < j => sent[i].f < sent[j].f
    /\ \A i \in 1..Len(sent), k \in 1..Len(audioBufferQueue) :
          sent[i].f < audioBufferQueue[k]

\* C2: no frame is dropped: a frame that waits in audioBufferQueue once
\* playback has ended, the session being active, is eventually submitted
\* (or playback starts again, or the session leaves Active).
Quiet == isSessionActive /\ sourcesRef = {} /\ decoding = << >>

C2_NoFrameDropped ==
    \A f \in 1..MaxFrames :
       (Quiet /\ f \in Range(audioBufferQueue))
          ~> (f \in Range(SentIds) \/ ~Quiet)

\* C3: when the speaking signal goes from true to false while the pending
\* queue is non-empty and a session is live, every queued frame is submitted
\* in queue order and the queue is empty afterwards; a frame captured while
\* nothing is playing is submitted at once.
C3_FlushOnSpeakingEnd ==
    [][ /\ ( /\ isAISpeaking /\ ~isAISpeaking'
             /\ audioBufferQueue # << >>
             /\ sessionRef # 0 /\ isSessionActive )
           => ( /\ audioBufferQueue' = << >>
                /\ SentIds' = SentIds \o audioBufferQueue )
        /\ (nFrames' = nFrames + 1 /\ sourcesRef = {})
           => SentIds' = Append(SentIds, nFrames + 1) ]_vars

\* C4: no overlap: of two chunks, the one that arrived later is scheduled to
\* start no earlier than the start of the other plus its duration.
C4_NoOverlap ==
    \A i, j \in 1..Len(scheduled) :
       scheduled[i].id < scheduled[j].id
          => scheduled[j].start >= scheduled[i].start + scheduled[i].dur

C4_Witness ==
    \E i, j \in 1..Len(scheduled) :
       /\ scheduled[i].id < scheduled[j].id
       /\ scheduled[j].waiting > 0
       /\ scheduled[i].start > 0
       /\ scheduled[i].dur = MaxDur

\* C5: in-order playback: chunks are started in the order of their events,
\* each at a later time than the one before, although every handler suspends
\* between clamping nextStartTime and calling source.start.
C5_InOrderPlayback ==
    \A i, j \in 1..Len(scheduled) :
       scheduled[i].id < scheduled[j].id
          => i < j /\ scheduled[i].start < scheduled[j].start

C5_Witness ==
    \E i, j \in 1..Len(scheduled) :
       /\ scheduled[i].id < scheduled[j].id
       /\ scheduled[j].waiting > 0
       /\ currentTime > scheduled[j].start

\* C6: when both accumulators are non-empty after trimming at a
\* turnComplete, the user Message is appended before the assistant Message
\* of that turn.
C6_TurnEmissionOrder ==
    (turns > 0 /\ ~IsBlank(atTurn.u) /\ ~IsBlank(atTurn.a))
       => \E i \in 1..(Len(messages) - 1) :
             /\ messages[i].turn = turns /\ messages[i].role = "user"
             /\ messages[i + 1].turn = turns /\ messages[i + 1].role = "ai"

C6_Witness ==
    /\ turns = 2 /\ ~IsBlank(atTurn.u) /\ ~IsBlank(atTurn.a)
    /\ Len(messages) >= 3

C8_RetryBound ==
    (last.op = "onclose" /\ last.from = "Active" /\ ConnectionState = "Terminated")
       => /\ reconnectCountRef = MAX_RECONNECT_ATTEMPTS
          /\ connects = startRequests + MAX_RECONNECT_ATTEMPTS

\* C9: after a manual stop no connect call is made until the user issues a
\* new start request.
C9_ManualStopNeverReconnects ==
    [][ (userStopped /\ userStopped') => connects' = connects ]_vars

\* C10: a permanent error received while Active ends the session at once:
\* not active, not connecting, no connect call, nothing left pending, the
\* retry counter unchanged.
C10_PermanentErrorShortCircuit ==
    [][ ( /\ last'.op = "onerror" /\ last'.perm /\ last'.from = "Active"
          /\ conns' # conns )
          => /\ ~isSessionActive' /\ ~isConnecting'
             /\ connects' = connects
             /\ starts' = starts
             /\ reconnectCountRef' = reconnectCountRef ]_vars

C10_Witness ==
    /\ last.op = "onerror" /\ last.perm /\ last.from = "Active"
    /\ ConnectionState = "Terminated"
    /\ variant = 3

\* C11: a start request that fails for want of authorization or of the capture
\* device surfaces an error and ends with isConnecting = false and
\* isSessionActive = false, without a connect call.
FailedStart ==
    /\ Len(starts') < Len(starts)
    /\ last'.op \in {"startFailed", "startKey"}

C11_FailedStartStaysIdle ==
    [][ FailedStart
          => /\ errorText' # NoError
             /\ ~isConnecting' /\ ~isSessionActive'
             /\ connects' = connects /\ conns' = conns ]_vars

\* C12: a start request issued while a session is in progress has no effect:
\* connect is never called while the session is active or another connection
\* of the session is still being opened.
InProgress(c) == conns[c].st = "pending" /\ ~conns[c].erred

C12_StartRejectedWhileInProgress ==
    [][ connects' = connects + 1
          => /\ ~isSessionActive
             /\ \A c \in 1..Len(conns) : ~InProgress(c) ]_vars

\* C13: stop is idempotent: the stop operation, called on a session that is
\* already stopped, leaves the connection status, the capture device, the
\* pending queue and the retry counter as the first stop left them.
Stopped ==
    /\ ~isSessionActive /\ ~isConnecting
    /\ userManuallyStopped /\ statusText = "ended"

CallsStopSession ==
    /\ variant = 1
    /\ last'.op \in {"stop", "onclose", "onerror"}
    /\ conns' # conns \/ last' # last

CaptureOf(cs) == [c \in 1..Len(cs) |-> cs[c].capture]

C13_StopIdempotent ==
    [][ (Stopped /\ CallsStopSession)
          => /\ UNCHANGED << isSessionActive, isConnecting, statusText,
                             userManuallyStopped, sessionRef, audioBufferQueue,
                             reconnectCountRef, connects, starts >>
             /\ CaptureOf(conns') = CaptureOf(conns) ]_vars

C13_Witness ==
    /\ variant = 1 /\ Stopped /\ userStopped
    /\ last.op = "onclose" /\ last.from = "Terminated"
    /\ audioBufferQueue # << >>
    /\ \E c \in 1..Len(conns) : conns[c].capture = "released"

\* C14: whenever the session leaves Active (manual stop, remote close, remote
\* error) the capture stream is released: no connection captures afterwards.
C14_CaptureReleasedOnLeavingActive ==
    [][ (isSessionActive /\ ~isSessionActive')
          => \A c \in 1..Len(conns') : conns'[c].capture # "on" ]_vars

\* C15: a terminated session has an empty pending-frame queue.
C15_TerminatedImpliesEmptyQueue ==
    ConnectionState = "Terminated" => audioBufferQueue = << >>

\* C16: the connection state changes only along Idle -> Connecting,
\* Connecting -> Active, Active -> Reconnecting, Reconnecting -> Active,
\* Reconnecting -> Terminated, any -> Terminated on manual stop and
\* Connecting -> Idle on a failed start (a start request made after a session
\* has ended counts as one made from Idle, and a connection that fails
\* before it opens as a failed start); Active is entered only from Connecting
\* or Reconnecting.
Rested == {"Idle", "Terminated"}

AllowedTransition(from, to, op) ==
    \/ from = to
    \/ from \in Rested /\ to = "Connecting"
    \/ from = "Connecting" /\ to = "Active"
    \/ from = "Active" /\ to = "Reconnecting"
    \/ from = "Reconnecting" /\ to \in {"Active", "Terminated"}
    \/ to = "Terminated" /\ op = "stop"
    \/ /\ from = "Connecting" /\ to \in Rested
       /\ op \in {"startFailed", "startKey", "onerror", "onclose"}

C16_AllowedTransitionsOnly ==
    [][ AllowedTransition(ConnectionState, ConnectionState', last'.op) ]_vars

\* C18: a malformed chunk is local: when the handler of an event whose audio
\* payload has an odd byte length resumes, nothing is scheduled, the active
\* set and nextStartTime stay as they are, and the transcription deltas and
\* the turnComplete flag of the same event are processed.
MalformedResumes ==
    /\ decoding # << >>
    /\ decoding[1].msg.audio = -1
    /\ decoding' = Tail(decoding)

C18_MalformedChunkIsLocal ==
    [][ MalformedResumes
          => LET m == decoding[1].msg
             IN  /\ UNCHANGED << scheduled, sourcesRef, nextStartTimeRef >>
                 /\ IF m.tc
                    THEN /\ turns' = turns + 1
                         /\ currentInputText' = << >>
                         /\ currentOutputText' = << >>
                    ELSE /\ currentInputText' = currentInputText \o m.inText
                         /\ currentOutputText' = currentOutputText \o m.outText ]_vars

\* C17: codec round trip: a sample of [-1, 1], quantized as the capture
\* callback does and decoded as int16 / 32768, comes back within one
\* quantization step (1 / 32768) of itself.
Abs(x) == IF x < 0 THEN 0 - x ELSE x

C17_CodecRoundTrip ==
    codec.phase = "decoded" => Abs(codec.out - codec.s) <= 1

\* C19: any two entries of the message list have different ids.
C19_UniqueMessageIds ==
    \A i, j \in 1..Len(messages) : i # j => messages[i].id # messages[j].id

\* C20: a failed translation request leaves the connection state, the pending
\* queue, the accumulators and the playback state unchanged, sets isTranslating
\* of its Message to false with the translation unchanged, and modifies no
\* other Message.
TranslationFails ==
    /\ Len(translations') < Len(translations)
    /\ settled'.outcome = "failed"

C20_CollaboratorErrorsAreLocal ==
    [][ TranslationFails
          => /\ ConnectionState' = ConnectionState
             /\ UNCHANGED << isSessionActive, isConnecting, audioBufferQueue,
                             currentInputText, currentOutputText,
                             nextStartTimeRef, sourcesRef >>
             /\ Len(messages') = Len(messages)
             /\ \A j \in 1..Len(messages) :
                   messages'[j] = IF j = settled'.idx
                                  THEN [messages[j] EXCEPT !.isTranslating = FALSE]
                                  ELSE messages[j] ]_vars

\* C21: the error shown for a permanent authorization error differs from the
\* one shown for a transient connection failure or for retry exhaustion, and
\* a transient connection error received by an active session while retries
\* remain shows no error at all.
ErrorReported == last'.op = "onerror" /\ conns' # conns

ConnectionErrors == {"connectFailed"}

C21_DistinctTerminalErrors ==
    [][ ErrorReported
          => IF last'.perm
             THEN errorText' \notin ConnectionErrors \cup {NoError}
             ELSE IF reconnectCountRef >= MAX_RECONNECT_ATTEMPTS
                  THEN errorText' \in ConnectionErrors
                  ELSE last'.from = "Active" => errorText' = errorText ]_vars

\* C22: the message list is append-only: it only grows at its end, and a
\* Message in the list keeps its place, id, role and text; only its
\* translation and isTranslating fields may change.
Identity(m) == [id |-> m.id, role |-> m.role, text |-> m.text, turn |-> m.turn]

C22_AppendOnlyTranscript ==
    [][ /\ Len(messages') >= Len(messages)
        /\ \A i \in 1..Len(messages) :
              Identity(messages'[i]) = Identity(messages[i]) ]_vars

C22_Witness ==
    /\ Len(messages) >= 4
    /\ \E i, j \in 1..Len(messages) :
          /\ i < j
          /\ messages[i].translation \in Truthy
          /\ messages[j].id.p \in {"u", "u-hint"} /\ messages[j].turn = 0
    /\ settled.outcome # "none"

\* C23: a frame handed to the gate while the active playback set is not empty
\* is appended to the pending queue and not submitted; hence no frame is
\* ever submitted to the remote session while the active playback set is not
\* empty.
C23_GateWhileSpeaking ==
    [][ /\ (nFrames' = nFrames + 1 /\ sourcesRef # {})
           => /\ audioBufferQueue' = Append(audioBufferQueue, nFrames + 1)
              /\ sent' = sent
        /\ sent' # sent => sourcesRef = {} /\ sourcesRef' = {} ]_vars

C23_Witness ==
    /\ sourcesRef # {}
    /\ ~isAISpeaking
    /\ nFrames \in Range(audioBufferQueue)
    /\ sent # << >>

\* C24: gap-free playback: a chunk that arrives while the previously
\* scheduled chunk has not yet finished (nextStartTime >= the playback clock)
\* is scheduled to start exactly at the previous chunk's start plus the
\* previous chunk's duration.
C24_GapFreePlayback ==
    \A i \in 1..(Len(scheduled) - 1) :
       (scheduled[i + 1].waiting = 0 /\ scheduled[i + 1].arrived.ahead)
          => scheduled[i + 1].start = scheduled[i].start + scheduled[i].dur

LastScheduled == scheduled[Len(scheduled)]

StartsChunk == Len(scheduled') = Len(scheduled) + 1

\* C24, amended: a chunk that is started while the playback clock has not
\* passed the end of the previously scheduled chunk is scheduled to start
\* exactly at the previous chunk's start plus the previous chunk's duration.
C24_GapFreeWhenStartedInTime ==
    [][ ( /\ StartsChunk /\ scheduled # << >>
          /\ currentTime <= LastScheduled.start + LastScheduled.dur )
          => LastScheduled'.start = LastScheduled.start + LastScheduled.dur ]_vars

C24_Witness ==
    \E i \in 1..(Len(scheduled) - 1) :
       /\ scheduled[i + 1].start = scheduled[i].start + scheduled[i].dur
       /\ scheduled[i + 1].waiting = 0
       /\ scheduled[i + 1].arrived.clock > scheduled[i].start
       /\ ~scheduled[i].arrived.ahead
       /\ currentTime <= scheduled[i + 1].start

\* C25: re-anchoring after idle: a chunk that arrives when the active
\* playback set is empty is scheduled to start at the value the playback
\* clock has then, and no chunk is started with a scheduled start earlier
\* than the value of the playback clock at the moment source.start is called.
C25_ReanchoringAfterIdle ==
    [][ StartsChunk
          => /\ LastScheduled'.start >= currentTime
             /\ LastScheduled'.arrived.idle
                   => LastScheduled'.start = LastScheduled'.arrived.clock ]_vars

\* C26: the speaking signal: the active set holds exactly the playback units
\* that have been scheduled and whose completion callback has not fired yet
\* (a unit enters when it is scheduled, leaves once, and not before it has
\* played out); isAISpeaking changes only at a sampling tick, to whether the
\* active set is non-empty at that tick; and once it is true it eventually
\* becomes false again.
Playing == { s.id : s \in sourcesRef }

Scheduled == { scheduled[i].id : i \in 1..Len(scheduled) }

C26_SpeakingSignal ==
    /\ [](Playing \subseteq Scheduled)
    /\ [](\A i \in 1..Len(scheduled) :
             currentTime < scheduled[i].start + scheduled[i].dur
                => scheduled[i].id \in Playing)
    /\ [][ /\ IF StartsChunk
              THEN Playing' = Playing \cup {LastScheduled'.id}
                   /\ LastScheduled'.id \notin Playing
              ELSE sourcesRef' \subseteq sourcesRef
           /\ isAISpeaking' # isAISpeaking
                 => isAISpeaking' = (sourcesRef # {}) /\ sourcesRef' = sourcesRef ]_vars
    /\ (isAISpeaking ~> ~isAISpeaking)

C26_Witness ==
    /\ isAISpeaking
    /\ sourcesRef = {}
    /\ Len(scheduled) = MaxChunks
    /\ currentTime > 1

\* C27: accumulator reset: right after a turnComplete event has been
\* processed both transcript accumulators are empty, and at no other time is
\* an accumulator reset or shortened: between turn boundaries it only grows
\* by appending.
IsPrefix(s, t) == Len(s) <= Len(t) /\ SubSeq(t, 1, Len(s)) = s

TurnCompleteProcessed ==
    \/ drawn'.tcs = drawn.tcs + 1 /\ nChunks' = nChunks
    \/ /\ decoding # << >> /\ decoding' = Tail(decoding)
       /\ decoding[1].msg.tc

C27_AccumulatorReset ==
    [][ IF TurnCompleteProcessed
        THEN currentInputText' = << >> /\ currentOutputText' = << >>
        ELSE /\ IsPrefix(currentInputText, currentInputText')
             /\ IsPrefix(currentOutputText, currentOutputText') ]_vars

\* C28: message text: the user (assistant) Message emitted at a turnComplete
\* has as its text the trimmed concatenation, in the order of arrival, of
\* all user (assistant) transcription deltas received since the previous
\* turnComplete; an accumulator that is blank gives no Message.
Emitted(role) ==
    { messages'[i].text :
        i \in { j \in (Len(messages) + 1)..Len(messages') : messages'[j].role = role } }

Texts(s) == IF Trim(s) = << >> THEN {} ELSE { Trim(s) }

C28_MessageText ==
    [][ TurnCompleteProcessed
          => LET due == IF nChunks' = nChunks /\ drawn'.tcs = drawn.tcs + 1
                        THEN drawn'.due
                        ELSE decoding[1].due
             IN  /\ Emitted("user") = Texts(due.u)
                 /\ Emitted("ai") = Texts(due.a) ]_vars

\* C29: Messages only at turn boundaries: an entry is appended to the
\* message list only while a turnComplete event is processed, and only from an
\* accumulator whose trimmed content is not empty; no other operation (a click
\* on a suggestion included) creates a Message.
FromAccumulator(m) ==
    /\ m.text # << >>
    /\ m.text = Trim(IF m.role = "user" THEN atTurn'.u ELSE atTurn'.a)

C29_MessagesOnlyAtTurnBoundaries ==
    [][ Len(messages') > Len(messages)
          => /\ TurnCompleteProcessed
             /\ turns' = turns + 1
             /\ \A i \in (Len(messages) + 1)..Len(messages') :
                   FromAccumulator(messages'[i]) ]_vars

\* C30: retry budget accounting: the retry counter is 0 right after every
\* transition to Active, goes up by one on every unexpected drop of an active
\* session (a close, or an error that is not permanent), and never exceeds
\* MAX_RECONNECT_ATTEMPTS.
UnexpectedDrop ==
    /\ last'.from = "Active"
    /\ conns' # conns
    /\ \/ last'.op = "onclose"
       \/ last'.op = "onerror" /\ ~last'.perm

C30_RetryBudgetAccounting ==
    /\ [](reconnectCountRef <= MAX_RECONNECT_ATTEMPTS)
    /\ [][ /\ (last'.op = "onopen" /\ conns' # conns) => reconnectCountRef' = 0
           /\ UnexpectedDrop => reconnectCountRef' = reconnectCountRef + 1 ]_vars


\* C31: no flush after manual stop: from a manual stop on (until the next
\* start request) no frame of the pending queue is submitted to the remote
\* session, also when playback that was in progress at the stop ends and the
\* checkStatus interval sees isAISpeaking go from true to false.
C31_NoFlushAfterManualStop ==
    [][ (userStopped \/ userStopped')
          => \A i \in (Len(sent) + 1)..Len(sent') :
                sent'[i].f \notin Range(audioBufferQueue) ]_vars

C31_Witness ==
    /\ userStopped /\ last.op = "stop"
    /\ variant # 1 /\ sessionRef # 0
    /\ isAISpeaking /\ sourcesRef = {}
    /\ audioBufferQueue # << >>


\* C32: configuration read at use: the assistant Message of a turnComplete is
\* sent for translation automatically exactly when the bilingual switch is on
\* at that turnComplete, whatever it was when the session was started.
AutoTranslated ==
    \/ Len(timers') > Len(timers)
    \/ Len(translations') > Len(translations)

C32_ConfigurationReadAtUse ==
    [][ (turns' = turns + 1 /\ ~IsBlank(atTurn'.a))
          => (AutoTranslated <=> globalBilingual) ]_vars


\* C33: delta / turn-boundary race: the Messages emitted for a turnComplete
\* hold every transcription delta that an event delivered before the
\* turnComplete event carried, in the order of delivery, also when the handler
\* of such an event is suspended at `await decodeAudioData`.
RECURSIVE IsSubSeq(_, _)
IsSubSeq(s, t) ==
    IF s = << >> THEN TRUE
    ELSE IF t = << >> THEN FALSE
    ELSE IF Head(s) = Head(t) THEN IsSubSeq(Tail(s), Tail(t))
    ELSE IsSubSeq(s, Tail(t))

C33_DeltaBeforeTurnBoundary ==
    [][ turns' = turns + 1
          => LET due == IF nChunks' = nChunks THEN drawn'.due ELSE decoding[1].due
             IN  /\ IsSubSeq(Trim(due.u), Trim(atTurn'.u))
                 /\ IsSubSeq(Trim(due.a), Trim(atTurn'.a)) ]_vars


\* C34: no transmission outside Active: a frame is submitted to the remote
\* session, by the capture callback or by the queue drain, only while the
\* session is active; none after a remote close, a remote error or a manual
\* stop.
C34_NoTransmissionOutsideActive ==
    [][ sent' # sent => isSessionActive /\ isSessionActive' ]_vars


\* C35: no capture leak on a failed handshake: when a connection reports an
\* error or closes after its capture stream has been acquired and before it
\* has opened, the stream is released; hence no session that rests in Idle or
\* Terminated holds a capture stream acquired for a connection that never
\* opened.
FailedHandshake(c) ==
    /\ conns[c].st = "pending" /\ ~conns[c].erred
    /\ conns'[c].st = "closed" \/ conns'[c].erred

C35_NoCaptureLeakOnFailedHandshake ==
    /\ [][ \A c \in 1..Len(conns) :
              FailedHandshake(c) => conns'[c].capture = "released" ]_vars
    /\ [](ConnectionState \in Rested
             => \A c \in 1..Len(conns) : conns[c].capture # "held")


\* C36: quiescence after termination: from a manual stop until the next start
\* request no inbound event changes the core state: no playback unit is
\* scheduled, no transcript accumulator grows and no Message is appended.
C36_QuiescenceAfterTermination ==
    [][ (userStopped /\ userStopped')
          => /\ scheduled' = scheduled
             /\ sourcesRef' \subseteq sourcesRef
             /\ Len(currentInputText') <= Len(currentInputText)
             /\ Len(currentOutputText') <= Len(currentOutputText)
             /\ Len(messages') = Len(messages) ]_vars


\* C37: start always resolves: a start request that has set isConnecting
\* eventually leaves Connecting, and leaves it either for Active or with an
\* error shown, also when the connect call rejects and neither onerror nor
\* onclose is invoked.
C37_StartAlwaysResolves ==
    /\ isConnecting ~> ~isConnecting
    /\ [][ (isConnecting /\ ~isConnecting')
             => (isSessionActive' \/ errorText' # NoError) ]_vars


\* C38: status exclusivity: isSessionActive and isConnecting are never both
\* true, whatever the order of start requests, stop requests and remote
\* opened / error / closed events.
C38_StatusExclusivity == ~(isSessionActive /\ isConnecting)


\* C39: offline stops the session: when the network goes offline while the
\* session is active, the session is stopped (isSessionActive = false, no
\* connection captures) and a network error is shown; when it goes offline
\* with no active session, only the error and the offline flag change.
WentOffline == isOnline /\ ~isOnline'

C39_OfflineStopsSession ==
    [][ WentOffline
          => /\ errorText' = "offline"
             /\ IF isSessionActive
                THEN /\ ~isSessionActive'
                     /\ \A c \in 1..Len(conns') : conns'[c].capture # "on"
                ELSE UNCHANGED << isSessionActive, isConnecting, statusText,
                                  starts, conns, sessionRef, connects,
                                  userManuallyStopped, reconnectCountRef,
                                  audioBufferQueue, messages >> ]_vars

====
